---- MODULE Spec2Model ----
(***************************************************************************)
(* Ride state machine, dispatch loop, presence registry of the drivers and *)
(* cached search radius of the ride-hailing backend (controllers/ride.js,  *)
(* controllers/sockets.js, the settings controller, models/Ride.js).       *)
(*                                                                         *)
(* Every handler is asynchronous: it runs atomically between two awaits    *)
(* and may interleave with any other handler at an await.  One action of   *)
(* the model is one such atomic segment.  An invocation of a ride handler  *)
(* starts at the segment in which its first storage read is served; the    *)
(* registry handlers, which race with handlers that do not await at all,   *)
(* have a segment for the arrival of the event as well.                    *)
(*                                                                         *)
(* document.save() sends the paths the handler modified since the          *)
(* document was loaded (a path assigned its loaded value is not sent), and *)
(* an array push is sent as a push; the write carries no condition on the  *)
(* stored status.                                                          *)
(***************************************************************************)
EXTENDS Integers, FiniteSets, Sequences, TLC

\* ---------------------------------------------------------------- bounds
\* handler and timer-callback invocations awaiting storage at once
MaxInFlight == 2
\* searchrider events handled (each one creates a closure that lives on):
\* next to the concurrent ride handlers, and in the dispatch-loop-only runs
MaxLoops == 1
MaxClosures == 2
\* retry budget of the dispatch loop; the source uses 60, every tick below
\* the budget does the same work, the model runs the loop with a short one
MAX_RETRIES == 2
\* connection handles of one driver in use at once
MaxSockets == 2
\* goOnDuty and updateLocation handlers awaiting User.findById at once
MaxEvents == 1

\* clock readings in the runs of the radius cache, in half cache lifetimes
MaxClock == 4
\* retrySearch invocations of one closure awaiting storage at once, in the
\* runs with overlapping ticks
MaxOverlap == 2
\* steps of the clock of the login runs, and LoginAttempt documents stored
MaxLoginClock == 6
MaxLogins == 6

\* ---------------------------------------------------------------- domains
\* lifetime of the cached radius, in ms, and the step of the clock
CACHE_DURATION == 30000
Tick == CACHE_DURATION \div 2
\* DISTANCE_RADIUS values an admin sends, in km
SettingInputs == {1, 60}
NULL == "null"
RideIds == {"r1"}
Customers == {"c1"}
Drivers == {"d1", "d2"}
Users == Customers \cup Drivers
\* a customer account that owns no ride
Strangers == {"c2"}
\* a ride id that resolves to no ride
UnknownRideIds == {"r0"}
\* vehicle types and positions of the runs of the acceptance checks
AllVehicles == {"Tricycle", "Cab"}
AllPositions == {0, 5}
\* vehicle types requested in the runs
Vehicles == {"Tricycle"}
\* User.vehicleType of the drivers (User documents never change here)
vehicleType == [d \in Drivers |-> "Tricycle"]
\* positions on a line, in km; every pickup is at 0
Positions == {0}
pickupOf == [r \in RideIds |-> 0]
dropOf == [r \in RideIds |-> 10]
\* payment methods a client may send to updatePaymentMethod
PaymentInputs == {"GCASH", "BOGUS"}
Statuses == {"SEARCHING_FOR_RIDER", "START", "ARRIVED", "COMPLETED",
             "CANCELLED", "TIMEOUT"}
\* status values a client may send to updateRideStatus
StatusInputs == {"START", "ARRIVED", "COMPLETED", "BOGUS"}
\* cancellation reasons sent in the runs
Reasons == {"why"}
\* new Date(): one abstract instant
Date == "date"
\* a value a client sends as a coordinate: a number, NaN, or no number at
\* all; a position is the latitude on the line
Number(n) == [t |-> "number", n |-> n]
NaN == [t |-> "NaN", n |-> 0]
undefined == [t |-> "undefined", n |-> 0]
aString == [t |-> "string", n |-> 0]
\* coordinates sent in the runs of the registry
CoordInputs == {Number(0), Number(5), NaN, undefined, aString}
\* positions of the drivers in the runs of the nearby search
NearbyPositions == {0, 2, 5}
\* the drivers whose connections open and close in the runs of the registry
Roamers == {"d1"}
\* handles of a driver's connections
Handles == 1 .. MaxSockets

\* emitted: the events createRide and the timeout branch of the dispatch
\* loop have emitted
VARIABLES rides, onDutyRiders, calls, loops, timeoutWrites, timeoutEmits,
          emitted,
          sockets, onDutyRoom, pendingDuty, graceTimers, offDuty,
          setting, cachedDistanceRadius, cacheTimestamp, now, pendingSettings,
          loginAttempts, minute, pendingLogins

\* the drivers' connections, the onDuty room, the registry handlers awaiting
\* User.findById and the grace timers of closed connections; offDuty records
\* the drivers whose latest duty event received, if any, is goOffDuty
connVars == <<sockets, onDutyRoom, pendingDuty, graceTimers, offDuty>>

\* the DISTANCE_RADIUS setting, its cache, the clock and the handlers that
\* await the settings collection
radiusVars == <<setting, cachedDistanceRadius, cacheTimestamp, now,
                pendingSettings>>

\* the LoginAttempt documents of one email, the time of day in minutes and
\* the admin-login requests that await storage
loginVars == <<loginAttempts, minute, pendingLogins>>

vars == <<rides, onDutyRiders, calls, loops, timeoutWrites, timeoutEmits,
          emitted,
          connVars, radiusVars, loginVars>>

\* ---------------------------------------------------------------- helpers
\* Map.set / Map.delete, and a collection's insert and replace
MapSet(m, k, v) == [x \in DOMAIN m \cup {k} |-> IF x = k THEN v ELSE m[x]]
MapDelete(m, k) == [x \in DOMAIN m \ {k} |-> m[x]]

\* geolib.getDistance, in meters, on the line
getDistance(a, b) == (IF a >= b THEN a - b ELSE b - a) * 1000

\* what a call of getDistanceRadiusInMeters resolves to when its read of the
\* settings is served at once: the cached value while the cache is fresh,
\* else the stored DISTANCE_RADIUS (3 km when none is stored) in meters.
\* The ride handlers and sendNearbyRiders use this value.
cacheValid ==
    /\ cachedDistanceRadius # <<>>
    /\ cacheTimestamp # <<>> /\ cacheTimestamp[1] # 0
    /\ now - cacheTimestamp[1] < CACHE_DURATION

getDistanceRadiusInMeters ==
    IF cacheValid THEN cachedDistanceRadius[1]
    ELSE IF setting = <<>> THEN 3 * 1000
    ELSE setting[1] * 1000

\* calculateDistance, in km, on the line
calculateDistance(a, b) == IF a >= b THEN a - b ELSE b - a

\* calculateFare with the default rates, in tenths of a peso: per vehicle
\* type the larger of distance x perKmRate and minimumRate
calculateFare(distance) ==
    LET Max(x, y) == IF x >= y THEN x ELSE y
    IN [v \in {"Single Motorcycle", "Tricycle", "Cab"} |->
          CASE v = "Single Motorcycle" -> Max(distance * 25, 150)
            [] v = "Tricycle" -> Max(distance * 28, 200)
            [] v = "Cab" -> Max(distance * 30, 300)]

\* the $set part of save(): the paths whose local value differs from the
\* loaded one, and the always-fresh timestamps in `fresh`
Modified(loaded, local, fresh) ==
    {<<f, local[f]>> : f \in {g \in DOMAIN local :
                                 g \in fresh \/ local[g] # loaded[g]}}

\* an update that sends the pushed array as the whole array
Save_wholeArray(doc, delta, push) ==
    [f \in DOMAIN doc |->
        IF f = "blacklistedRiders" THEN push
        ELSE IF \E p \in delta : p[1] = f
             THEN (CHOOSE p \in delta : p[1] = f)[2]
             ELSE doc[f]]

\* the stored document after an update {$set: delta, $push: push}
Save(doc, delta, push) ==
    [f \in DOMAIN doc |->
        IF f = "blacklistedRiders" THEN doc[f] \cup push
        ELSE IF \E p \in delta : p[1] = f
             THEN (CHOOSE p \in delta : p[1] = f)[2]
             ELSE doc[f]]

\* a handler invocation awaiting storage at pc; arg: the cancellation reason
\* a socket cancelRide handler still holds; named: the ride id in the data of
\* the cancelRide event it serves; loop: the searchrider closure it belongs
\* to (0: none)
Call(op, user, ride, pc, delta, push) ==
    [op |-> op, user |-> user, ride |-> ride, pc |-> pc,
     delta |-> delta, push |-> push, arg |-> NULL, named |-> NULL,
     loop |-> 0]

\* `${firstName} ${lastName}` of a user: the user's id stands for the name
Name(u) == u

\* the assignments every cancel path makes when it cancels the ride
Cancelled(doc, by, name, reason) ==
    [doc EXCEPT !.status = "CANCELLED",
                !.cancelledBy = by,
                !.cancelledByName = name,
                !.cancelledAt = Date,
                !.cancellationReason = IF reason # NULL THEN reason ELSE @]

\* retrySearch invocations of loop l, and the sendNearbyRiders calls they
\* made, that await storage
Ticks(l) == l.check + l.final + l.timeoutRide + l.save + l.offer

RECURSIVE SumTicks(_)
SumTicks(ls) == IF ls = <<>> THEN 0 ELSE Ticks(Head(ls)) + SumTicks(Tail(ls))

InFlight == Cardinality(calls) + SumTicks(loops)

\* first segment of a handler: it ends the handler with `outcome`, or the
\* handler goes on ("pending") as `call`
Begin(outcome, call) ==
    /\ outcome = "pending" => InFlight < MaxInFlight
    /\ calls' = IF outcome = "pending" THEN calls \cup {call} ELSE calls

\* ---------------------------------------------------------------- state
\* the server has started and every driver's app has opened its connection:
\* nothing is stored, nobody is on duty, no radius is cached
Init ==
    /\ rides = <<>>
    /\ onDutyRiders = <<>>
    /\ sockets = [d \in Drivers |-> <<1>>]
    /\ onDutyRoom = {}
    /\ pendingDuty = {}
    /\ graceTimers = {}
    /\ offDuty = Drivers
    /\ setting = <<>>
    /\ cachedDistanceRadius = <<>>
    /\ cacheTimestamp = <<>>
    /\ now = Tick
    /\ pendingSettings = {}
    /\ calls = {}
    /\ loops = <<>>
    /\ timeoutWrites = [r \in RideIds |-> 0]
    /\ timeoutEmits = [r \in RideIds |-> 0]
    /\ emitted = {}
    /\ loginAttempts = <<>>
    /\ minute = 0
    /\ pendingLogins = {}

\* ---------------------------------------------------------------- createRide
\* an event emitted to a room or to one connection
Emit(to, event, rideId) == [to |-> to, event |-> event, rideId |-> rideId]
\* the room ride_<id> of a ride's subscribers
RideRoom(r) == <<"ride", r>>
\* the room of the drivers on duty
OnDuty == <<"onDuty", NULL>>

\* typeof v, parseFloat(v) and isNaN(v) of a client value
typeof(v) == IF v.t \in {"number", "NaN"} THEN "number" ELSE v.t
parseFloat(v) == IF v.t = "number" THEN v ELSE NaN
isNaN(v) == v.t # "number"
\* the values of a request body: a location with its two coordinates, or
\* none
Location(latitude, longitude) ==
    [t |-> "object", latitude |-> latitude, longitude |-> longitude]
noLocation == [t |-> "undefined", latitude |-> undefined, longitude |-> undefined]
\* !v of a client value
Not(v) == v.t \in {"undefined", "NaN"} \/ (v.t = "number" /\ v.n = 0)
\* bodies sent in the runs of createRide
VehicleInputs == {"Single Motorcycle", "Tricycle", "Cab", "Bus"}
LocationInputs ==
    {noLocation, Location(Number(5), Number(5))}
       \cup {Location(x, Number(5)) : x \in {NaN, undefined, aString}}
       \cup {Location(Number(5), x) : x \in {NaN, undefined, aString}}
PassengerInputs ==
    {undefined, aString, Number(0 - 1), Number(0), Number(1), Number(3),
     Number(4), Number(5)}
\* the ids Ride.create gives in the runs of createRide
CreatedIds == {"r1", "r2"}

\* maxPassengers[vehicle] || 1
maxPassengers(vehicle) ==
    CASE vehicle = "Single Motorcycle" -> 1
      [] vehicle = "Tricycle" -> 3
      [] vehicle = "Cab" -> 4
      [] OTHER -> 1

\* passengerCount || 1
requestedPassengers(passengerCount) ==
    IF Not(passengerCount) THEN Number(1) ELSE passengerCount

\* the checks ahead of the try block; a comparison with a value that is no
\* number is false
createRide_checks(vehicle, pickup, drop, passengerCount) ==
    IF pickup.t = "undefined" \/ drop.t = "undefined" THEN "error"
    ELSE IF \/ Not(pickup.latitude) \/ Not(pickup.longitude)
            \/ isNaN(pickup.latitude) \/ isNaN(pickup.longitude) THEN "error"
    ELSE IF \/ Not(drop.latitude) \/ Not(drop.longitude)
            \/ isNaN(drop.latitude) \/ isNaN(drop.longitude) THEN "error"
    ELSE LET n == requestedPassengers(passengerCount)
         IN IF n.t = "number" /\ n.n > maxPassengers(vehicle) THEN "error"
            ELSE IF n.t = "number" /\ n.n < 1 THEN "error"
            ELSE "pending"

\* the schema's validation in Ride.create: vehicle is one of the enumeration,
\* passengerCount a number from 1 to 4
rideSchema_validate(vehicle, passengerCount) ==
    /\ vehicle \in {"Single Motorcycle", "Tricycle", "Cab"}
    /\ passengerCount.t = "number"
    /\ passengerCount.n >= 1 /\ passengerCount.n <= 4

\* the whole handler for any body: a body that fails a check or the schema
\* persists nothing and emits nothing; else Ride.create and newRideRequest
\* to the onDuty room
createRide_request(c, r, vehicle, pickup, drop, passengerCount) ==
    /\ r \notin DOMAIN rides
    /\ IF /\ createRide_checks(vehicle, pickup, drop, passengerCount) = "pending"
          /\ rideSchema_validate(vehicle, requestedPassengers(passengerCount))
       THEN /\ rides' = MapSet(rides, r,
                  [customer |-> c, vehicle |-> vehicle,
                   passengerCount |-> requestedPassengers(passengerCount).n,
                   distance |-> calculateDistance(pickup.latitude.n,
                                                  drop.latitude.n),
                   fare |-> calculateFare(
                               calculateDistance(pickup.latitude.n,
                                                 drop.latitude.n))[vehicle],
                   status |-> "SEARCHING_FOR_RIDER", rider |-> NULL,
                   cancelledBy |-> NULL, cancelledByName |-> NULL,
                   cancelledAt |-> NULL, cancellationReason |-> NULL,
                   blacklistedRiders |-> {},
                   paymentMethod |-> NULL, paymentConfirmedAt |-> NULL])
            /\ emitted' = emitted \cup {Emit(OnDuty, "newRideRequest", r)}
       ELSE UNCHANGED <<rides, emitted>>
    /\ UNCHANGED <<onDutyRiders, calls, loops, timeoutWrites, timeoutEmits,
                   connVars, radiusVars,
                   loginVars>>

\* a request whose body passes every check, without a passenger count:
\* Ride.create with status SEARCHING_FOR_RIDER and the schema defaults
\* elsewhere, then newRideRequest to the onDuty room; no dispatch loop is
\* started here
createRide(c, r, v) ==
    /\ r \notin DOMAIN rides
    /\ rides' = MapSet(rides, r,
          [customer |-> c, vehicle |-> v, passengerCount |-> 1,
           distance |-> calculateDistance(pickupOf[r], dropOf[r]),
           fare |-> calculateFare(
                       calculateDistance(pickupOf[r], dropOf[r]))[v],
           status |-> "SEARCHING_FOR_RIDER", rider |-> NULL,
           cancelledBy |-> NULL, cancelledByName |-> NULL,
           cancelledAt |-> NULL, cancellationReason |-> NULL,
           blacklistedRiders |-> {},
           paymentMethod |-> NULL, paymentConfirmedAt |-> NULL])
    /\ emitted' = emitted \cup {Emit(OnDuty, "newRideRequest", r)}
    /\ UNCHANGED <<onDutyRiders, calls, loops, timeoutWrites, timeoutEmits,
                   connVars, radiusVars,
                   loginVars>>

\* ---------------------------------------------------------------- registry

\* the test without the one for NaN
invalidCoords_typeofOnly(coords) == typeof(coords) # "number"

\* the handlers' test of the coordinates an event carries
invalidCoords(coords) ==
    typeof(coords) # "number" \/ isNaN(parseFloat(coords))

\* the presence record goOnDuty and updateLocation write
riderData(socketId, coords) ==
    [socketId |-> socketId, coords |-> parseFloat(coords)]

\* the connections of driver d that are open, oldest first
Live(d) == {sockets[d][i] : i \in DOMAIN sockets[d]}

\* a connection handle of driver d that some part of the state still holds
Held(d, h) ==
    \/ h \in Live(d)
    \/ <<d, h>> \in graceTimers
    \/ d \in DOMAIN onDutyRiders /\ onDutyRiders[d].socketId = h
    \/ \E p \in pendingDuty : p.user = d /\ p.socket = h

\* a driver's app connects: the connection gets a handle of its own
connection(d) ==
    /\ \E h \in Handles : ~Held(d, h)
    /\ sockets' = [sockets EXCEPT ![d] =
          Append(@, CHOOSE h \in Handles :
                       ~Held(d, h) /\ \A g \in Handles : ~Held(d, g) => h <= g)]
    /\ UNCHANGED <<rides, onDutyRiders, calls, loops, timeoutWrites,
                   timeoutEmits, emitted, onDutyRoom, pendingDuty, graceTimers, offDuty,
                   radiusVars,
                   loginVars>>

\* goOnDuty received on connection h: the handler awaits User.findById
goOnDuty_event(d, h, coords) ==
    /\ h \in Live(d)
    /\ Cardinality(pendingDuty) < MaxEvents
    /\ pendingDuty' = pendingDuty \cup
          {[op |-> "goOnDuty", user |-> d, socket |-> h, coords |-> coords]}
    /\ offDuty' = offDuty \ {d}
    /\ UNCHANGED <<rides, onDutyRiders, calls, loops, timeoutWrites,
                   timeoutEmits, emitted, sockets, onDutyRoom, graceTimers, radiusVars,
                   loginVars>>

\* goOnDuty's User.findById served: the coordinates are validated, the
\* presence record is set under the driver's id and the connection joins the
\* onDuty room (the membership of a closed connection is never read)
goOnDuty_user(p) ==
    /\ p \in pendingDuty /\ p.op = "goOnDuty"
    /\ pendingDuty' = pendingDuty \ {p}
    /\ IF invalidCoords(p.coords)
       THEN UNCHANGED <<onDutyRiders, onDutyRoom>>
       ELSE /\ onDutyRiders' =
                  MapSet(onDutyRiders, p.user, riderData(p.socket, p.coords))
            /\ onDutyRoom' = IF p.socket \in Live(p.user)
                             THEN onDutyRoom \cup {<<p.user, p.socket>>}
                             ELSE onDutyRoom
    /\ UNCHANGED <<rides, calls, loops, timeoutWrites, timeoutEmits, emitted,
                   sockets, graceTimers, offDuty, radiusVars,
                   loginVars>>

\* goOnDuty at position pos on the driver's oldest connection, with the
\* handler's User.findById served before any other event
goOnDuty(d, pos) ==
    /\ sockets[d] # <<>>
    /\ onDutyRiders' =
          MapSet(onDutyRiders, d, riderData(Head(sockets[d]), Number(pos)))
    /\ onDutyRoom' = onDutyRoom \cup {<<d, Head(sockets[d])>>}
    /\ offDuty' = offDuty \ {d}
    /\ UNCHANGED <<rides, calls, loops, timeoutWrites, timeoutEmits, emitted,
                   sockets, pendingDuty, graceTimers, radiusVars,
                   loginVars>>

\* a goOffDuty that empties the registry
goOffDuty_clear(d, h) ==
    /\ h \in Live(d)
    /\ onDutyRiders' = <<>>
    /\ onDutyRoom' = onDutyRoom \ {<<d, h>>}
    /\ offDuty' = offDuty \cup {d}
    /\ UNCHANGED <<rides, calls, loops, timeoutWrites, timeoutEmits, emitted,
                   sockets, pendingDuty, graceTimers, radiusVars,
                   loginVars>>

\* goOffDuty received on connection h: no await
goOffDuty(d, h) ==
    /\ h \in Live(d)
    /\ onDutyRiders' = MapDelete(onDutyRiders, d)
    /\ onDutyRoom' = onDutyRoom \ {<<d, h>>}
    /\ offDuty' = offDuty \cup {d}
    /\ UNCHANGED <<rides, calls, loops, timeoutWrites, timeoutEmits, emitted,
                   sockets, pendingDuty, graceTimers, radiusVars,
                   loginVars>>

\* updateLocation received on connection h: invalid coordinates are dropped;
\* a driver with a presence record gets the coordinates replaced; a driver
\* without one whose connection is in the onDuty room awaits User.findById;
\* any other update is ignored
updateLocation(d, h, coords) ==
    /\ h \in Live(d)
    /\ IF invalidCoords(coords)
       THEN UNCHANGED <<onDutyRiders, pendingDuty>>
       ELSE IF d \in DOMAIN onDutyRiders
       THEN /\ onDutyRiders' =
                  [onDutyRiders EXCEPT ![d].coords = parseFloat(coords)]
            /\ UNCHANGED pendingDuty
       ELSE IF <<d, h>> \in onDutyRoom
       THEN /\ Cardinality(pendingDuty) < MaxEvents
            /\ pendingDuty' = pendingDuty \cup
                  {[op |-> "updateLocation", user |-> d, socket |-> h,
                    coords |-> coords]}
            /\ UNCHANGED onDutyRiders
       ELSE UNCHANGED <<onDutyRiders, pendingDuty>>
    /\ offDuty' = offDuty \ {d}
    /\ UNCHANGED <<rides, calls, loops, timeoutWrites, timeoutEmits, emitted,
                   sockets, onDutyRoom, graceTimers, radiusVars,
                   loginVars>>

\* a re-registration that is dropped
updateLocation_user_dropped(p) ==
    /\ p \in pendingDuty /\ p.op = "updateLocation"
    /\ pendingDuty' = pendingDuty \ {p}
    /\ UNCHANGED <<rides, onDutyRiders, calls, loops, timeoutWrites,
                   timeoutEmits, emitted, sockets, onDutyRoom, graceTimers, offDuty,
                   radiusVars,
                   loginVars>>

\* updateLocation's User.findById served: the presence record is set with
\* the connection's handle
updateLocation_user(p) ==
    /\ p \in pendingDuty /\ p.op = "updateLocation"
    /\ pendingDuty' = pendingDuty \ {p}
    /\ onDutyRiders' =
          MapSet(onDutyRiders, p.user, riderData(p.socket, p.coords))
    /\ UNCHANGED <<rides, calls, loops, timeoutWrites, timeoutEmits, emitted,
                   sockets, onDutyRoom, graceTimers, offDuty, radiusVars,
                   loginVars>>

\* connection h of a driver closes: it leaves its rooms and a grace timer is
\* set
disconnect(d, h) ==
    /\ h \in Live(d)
    /\ sockets' = [sockets EXCEPT ![d] = SelectSeq(@, LAMBDA g : g # h)]
    /\ onDutyRoom' = onDutyRoom \ {<<d, h>>}
    /\ graceTimers' = graceTimers \cup {<<d, h>>}
    /\ UNCHANGED <<rides, onDutyRiders, calls, loops, timeoutWrites,
                   timeoutEmits, emitted, pendingDuty, offDuty, radiusVars,
                   loginVars>>

\* the grace timer of connection h fires: the presence record is deleted if
\* it still carries this connection's handle
disconnect_timeout(d, h) ==
    /\ <<d, h>> \in graceTimers
    /\ graceTimers' = graceTimers \ {<<d, h>>}
    /\ onDutyRiders' =
          IF d \in DOMAIN onDutyRiders /\ onDutyRiders[d].socketId = h
          THEN MapDelete(onDutyRiders, d)
          ELSE onDutyRiders
    /\ UNCHANGED <<rides, calls, loops, timeoutWrites, timeoutEmits, emitted,
                   sockets, onDutyRoom, pendingDuty, offDuty, radiusVars,
                   loginVars>>

\* ---------------------------------------------------------------- radius
\* Date.now() advances
tick ==
    /\ now < MaxClock * Tick
    /\ now' = now + Tick
    /\ UNCHANGED <<rides, onDutyRiders, calls, loops, timeoutWrites,
                   timeoutEmits, emitted, connVars, setting, cachedDistanceRadius,
                   cacheTimestamp, pendingSettings,
                   loginVars>>

invalidateDistanceRadiusCache ==
    /\ cachedDistanceRadius' = <<>>
    /\ cacheTimestamp' = <<>>

\* a call of getDistanceRadiusInMeters: a fresh cache answers it, else it
\* awaits AppSettings.findOne
getDistanceRadiusInMeters_call ==
    /\ ~cacheValid
    /\ Cardinality(pendingSettings) < MaxInFlight
    /\ pendingSettings' = pendingSettings \cup
          {[op |-> "getDistanceRadiusInMeters", pc |-> "findOne", value |-> 0]}
    /\ UNCHANGED <<rides, onDutyRiders, calls, loops, timeoutWrites,
                   timeoutEmits, emitted, connVars, setting, cachedDistanceRadius,
                   cacheTimestamp, now,
                   loginVars>>

\* findOne served by the settings collection: the value stored at this
\* moment travels back to the caller; without a stored setting the call
\* awaits AppSettings.create of the default
getDistanceRadiusInMeters_findOne(p) ==
    /\ p \in pendingSettings
    /\ p.op = "getDistanceRadiusInMeters" /\ p.pc = "findOne"
    /\ pendingSettings' = (pendingSettings \ {p}) \cup
          {IF setting = <<>> THEN [p EXCEPT !.pc = "create"]
           ELSE [p EXCEPT !.pc = "cache", !.value = setting[1]]}
    /\ UNCHANGED <<rides, onDutyRiders, calls, loops, timeoutWrites,
                   timeoutEmits, emitted, connVars, setting,
                   cachedDistanceRadius, cacheTimestamp, now,
                   loginVars>>

\* create served: the default of 3 km is stored and travels back;
\* settingKey is unique, so with a setting stored meanwhile create fails and
\* the call answers 3000 without touching the cache
getDistanceRadiusInMeters_create(p) ==
    /\ p \in pendingSettings
    /\ p.op = "getDistanceRadiusInMeters" /\ p.pc = "create"
    /\ IF setting = <<>>
       THEN /\ setting' = <<3>>
            /\ pendingSettings' = (pendingSettings \ {p}) \cup
                  {[p EXCEPT !.pc = "cache", !.value = 3]}
       ELSE /\ pendingSettings' = pendingSettings \ {p}
            /\ UNCHANGED setting
    /\ UNCHANGED <<rides, onDutyRiders, calls, loops, timeoutWrites,
                   timeoutEmits, emitted, connVars, cachedDistanceRadius,
                   cacheTimestamp, now,
                   loginVars>>

\* the awaited document has arrived: its value is cached in meters with the
\* time of day, and returned
getDistanceRadiusInMeters_cache(p) ==
    /\ p \in pendingSettings
    /\ p.op = "getDistanceRadiusInMeters" /\ p.pc = "cache"
    /\ pendingSettings' = pendingSettings \ {p}
    /\ cachedDistanceRadius' = <<p.value * 1000>>
    /\ cacheTimestamp' = <<now>>
    /\ UNCHANGED <<rides, onDutyRiders, calls, loops, timeoutWrites,
                   timeoutEmits, emitted, connVars, setting, now,
                   loginVars>>

\* updateSetting's check of a DISTANCE_RADIUS value: a number from 0.5 to 50
updateSetting_checks(value) ==
    IF value < 0 THEN "error"
    ELSE IF value * 2 < 1 \/ value > 50 THEN "error"
    ELSE "pending"

\* updateSetting for DISTANCE_RADIUS: the old value is read for the log and
\* findOneAndUpdate is issued
updateSetting(value) ==
    /\ IF updateSetting_checks(value) = "pending"
       THEN /\ Cardinality(pendingSettings) < MaxInFlight
            /\ pendingSettings' = pendingSettings \cup
                  {[op |-> "updateSetting", pc |-> "findOneAndUpdate",
                    value |-> value]}
       ELSE UNCHANGED pendingSettings
    /\ UNCHANGED <<rides, onDutyRiders, calls, loops, timeoutWrites,
                   timeoutEmits, emitted, connVars, setting, cachedDistanceRadius,
                   cacheTimestamp, now,
                   loginVars>>

\* bulkUpdateSettings' check of a value: a number not below 0
bulkUpdateSettings_checks(value) ==
    IF value < 0 THEN "error" ELSE "pending"

\* bulkUpdateSettings with one DISTANCE_RADIUS item: findOneAndUpdate is
\* issued
bulkUpdateSettings(value) ==
    /\ IF bulkUpdateSettings_checks(value) = "pending"
       THEN /\ Cardinality(pendingSettings) < MaxInFlight
            /\ pendingSettings' = pendingSettings \cup
                  {[op |-> "bulkUpdateSettings", pc |-> "findOneAndUpdate",
                    value |-> value]}
       ELSE UNCHANGED pendingSettings
    /\ UNCHANGED <<rides, onDutyRiders, calls, loops, timeoutWrites,
                   timeoutEmits, emitted, connVars, setting, cachedDistanceRadius,
                   cacheTimestamp, now,
                   loginVars>>

\* findOneAndUpdate with upsert served, for either handler: the value is
\* stored and the activity log is written next
findOneAndUpdate(p) ==
    /\ p \in pendingSettings /\ p.pc = "findOneAndUpdate"
    /\ setting' = <<p.value>>
    /\ pendingSettings' = (pendingSettings \ {p}) \cup {[p EXCEPT !.pc = "log"]}
    /\ UNCHANGED <<rides, onDutyRiders, calls, loops, timeoutWrites,
                   timeoutEmits, emitted, connVars, cachedDistanceRadius,
                   cacheTimestamp, now,
                   loginVars>>

\* updateSetting's activity log written: the cache is invalidated and the
\* handler answers
updateSetting_log(p) ==
    /\ p \in pendingSettings /\ p.op = "updateSetting" /\ p.pc = "log"
    /\ pendingSettings' = pendingSettings \ {p}
    /\ invalidateDistanceRadiusCache
    /\ UNCHANGED <<rides, onDutyRiders, calls, loops, timeoutWrites,
                   timeoutEmits, emitted, connVars, setting, now,
                   loginVars>>

\* bulkUpdateSettings' activity log written: the handler answers
bulkUpdateSettings_log(p) ==
    /\ p \in pendingSettings /\ p.op = "bulkUpdateSettings" /\ p.pc = "log"
    /\ pendingSettings' = pendingSettings \ {p}
    /\ UNCHANGED <<rides, onDutyRiders, calls, loops, timeoutWrites,
                   timeoutEmits, emitted, connVars, setting, cachedDistanceRadius,
                   cacheTimestamp, now,
                   loginVars>>

\* ---------------------------------------------------------------- acceptRide
\* a status check that lets a ride pass that already has its rider
acceptRide_status_started(r) ==
    IF r \notin DOMAIN rides THEN "error"
    ELSE IF rides[r].status \notin {"SEARCHING_FOR_RIDER", "START"} THEN "error"
    ELSE "pending"

\* Ride.findById and the status check: how the first segment ends
acceptRide_status(r) ==
    IF r \notin DOMAIN rides THEN "error"
    ELSE IF rides[r].status # "SEARCHING_FOR_RIDER" THEN "error"
    ELSE "pending"

acceptRide(d, r) ==
    /\ Begin(acceptRide_status(r), Call("acceptRide", d, r, "user", {}, {}))
    /\ UNCHANGED <<rides, onDutyRiders, loops, timeoutWrites, timeoutEmits, emitted,
                   connVars, radiusVars,
                   loginVars>>

\* the connections acceptRide prompts with requestLocationSync when the
\* driver has no presence record: the first of the open connections that is
\* the driver's, if that one is in the onDuty room
requestLocationSync(d) ==
    IF d \notin DOMAIN onDutyRiders /\ sockets[d] # <<>>
          /\ <<d, Head(sockets[d])>> \in onDutyRoom
    THEN {<<d, Head(sockets[d])>>}
    ELSE {}

\* the checks without the one on the distance
acceptRide_checks_anyDistance(d, r) ==
    IF vehicleType[d] # rides[r].vehicle THEN "error"
    ELSE IF d \notin DOMAIN onDutyRiders THEN "error"
    ELSE "pending"

\* the checks without the one on the vehicle type
acceptRide_checks_anyVehicle(d, r) ==
    IF d \notin DOMAIN onDutyRiders THEN "error"
    ELSE IF getDistance(onDutyRiders[d].coords.n, pickupOf[r])
                > getDistanceRadiusInMeters THEN "error"
    ELSE "pending"

\* the checks after User.findById: vehicle type, registry presence, distance
\* to the pickup against the radius
acceptRide_checks(d, r) ==
    IF vehicleType[d] # rides[r].vehicle THEN "error"
    ELSE IF d \notin DOMAIN onDutyRiders THEN "error"
    ELSE IF getDistance(onDutyRiders[d].coords.n, pickupOf[r])
                > getDistanceRadiusInMeters THEN "error"
    ELSE "pending"

\* an accept that assigns the rider and leaves the status
acceptRide_user_riderOnly(c) ==
    /\ c \in calls /\ c.op = "acceptRide" /\ c.pc = "user"
    /\ calls' = IF acceptRide_checks(c.user, c.ride) = "pending"
                THEN (calls \ {c}) \cup
                     {[c EXCEPT !.pc = "save",
                                !.delta = {<<"rider", c.user>>}]}
                ELSE calls \ {c}
    /\ UNCHANGED <<rides, onDutyRiders, loops, timeoutWrites, timeoutEmits, emitted,
                   connVars, radiusVars,
                   loginVars>>

\* User.findById served: after the checks rider and status are assigned and
\* save() is issued
acceptRide_user(c) ==
    /\ c \in calls /\ c.op = "acceptRide" /\ c.pc = "user"
    /\ calls' = IF acceptRide_checks(c.user, c.ride) = "pending"
                THEN (calls \ {c}) \cup
                     {[c EXCEPT !.pc = "save",
                                !.delta = {<<"rider", c.user>>,
                                           <<"status", "START">>}]}
                ELSE calls \ {c}
    /\ UNCHANGED <<rides, onDutyRiders, loops, timeoutWrites, timeoutEmits, emitted,
                   connVars, radiusVars,
                   loginVars>>

\* ---------------------------------------------------------------- updateRideStatus
\* the checks without the guard on COMPLETED
updateRideStatus_checks_unguarded(r, status) ==
    IF r \notin DOMAIN rides THEN "error"
    ELSE IF status \notin {"START", "ARRIVED", "COMPLETED"} THEN "error"
    ELSE "pending"

\* Ride.findById and the checks: how the first segment ends
updateRideStatus_checks(r, status) ==
    IF r \notin DOMAIN rides THEN "error"
    ELSE IF status \notin {"START", "ARRIVED", "COMPLETED"} THEN "error"
    ELSE IF rides[r].status = "COMPLETED" THEN "noop"
    ELSE "pending"

\* status is assigned and save() is issued
updateRideStatus(r, status) ==
    /\ Begin(updateRideStatus_checks(r, status),
             Call("updateRideStatus", NULL, r, "save",
                  Modified(rides[r], [rides[r] EXCEPT !.status = status], {}),
                  {}))
    /\ UNCHANGED <<rides, onDutyRiders, loops, timeoutWrites, timeoutEmits, emitted,
                   connVars, radiusVars,
                   loginVars>>

\* ---------------------------------------------------------------- cancelRide (REST)
\* checks that admit a cancel from any account but the customer's as a
\* driver's
cancelRide_checks_anyDriver(u, r) ==
    IF r \notin DOMAIN rides THEN "error"
    ELSE IF rides[r].status = "COMPLETED" THEN "rejected"
    ELSE IF rides[r].status \notin {"SEARCHING_FOR_RIDER", "START", "ARRIVED"}
         THEN "error"
    ELSE "pending"

\* Ride.findById and the checks: how the first segment ends
cancelRide_checks(u, r) ==
    IF r \notin DOMAIN rides THEN "error"
    ELSE IF rides[r].customer # u /\ rides[r].rider # u THEN "error"
    ELSE IF rides[r].status = "COMPLETED" THEN "rejected"
    ELSE IF rides[r].status \notin {"SEARCHING_FOR_RIDER", "START", "ARRIVED"}
         THEN "error"
    ELSE "pending"

\* the document cancelRide has built when it issues save()
cancelRideLocal(doc, userId, reason) ==
    LET cancelledBy == IF doc.customer = userId THEN "customer" ELSE "rider"
        cancellerName == IF cancelledBy = "customer" THEN Name(doc.customer)
                         ELSE Name(doc.rider)
        withReason == [doc EXCEPT !.cancellationReason =
                                      IF reason # NULL THEN reason ELSE @]
    IN IF cancelledBy = "rider" /\ doc.status = "SEARCHING_FOR_RIDER"
       THEN [withReason EXCEPT !.rider = NULL]
       ELSE Cancelled(doc, cancelledBy, cancellerName, reason)

\* the ids cancelRide pushes to blacklistedRiders
cancelRidePush(doc, userId) ==
    IF doc.customer # userId /\ userId \notin doc.blacklistedRiders
    THEN {userId} ELSE {}

cancelRide(u, r, reason) ==
    /\ Begin(cancelRide_checks(u, r),
             Call("cancelRide", u, r, "save",
                  Modified(rides[r], cancelRideLocal(rides[r], u, reason),
                           IF cancelRideLocal(rides[r], u, reason).status
                                  = "CANCELLED"
                           THEN {"cancelledAt"} ELSE {}),
                  cancelRidePush(rides[r], u)))
    /\ UNCHANGED <<rides, onDutyRiders, loops, timeoutWrites, timeoutEmits, emitted,
                   connVars, radiusVars,
                   loginVars>>

\* ---------------------------------------------------------------- customerCancelRide (socket)
\* Ride.findById and the checks: how the first segment ends
customerCancelRide_checks(u, r) ==
    IF r \notin DOMAIN rides THEN "error"
    ELSE IF rides[r].customer # u THEN "error"
    ELSE IF rides[r].status = "COMPLETED" THEN "error"
    ELSE IF rides[r].status = "CANCELLED" THEN "error"
    ELSE "pending"

customerCancelRide(u, r, reason) ==
    /\ Begin(customerCancelRide_checks(u, r),
             Call("customerCancelRide", u, r, "save",
                  Modified(rides[r],
                           Cancelled(rides[r], "customer",
                                     Name(rides[r].customer), reason),
                           {"cancelledAt"}),
                  {}))
    /\ UNCHANGED <<rides, onDutyRiders, loops, timeoutWrites, timeoutEmits, emitted,
                   connVars, radiusVars,
                   loginVars>>

\* ---------------------------------------------------------------- updatePaymentMethod
\* the input check, Ride.findById and the checks: how the first segment ends
updatePaymentMethod_checks(u, r, paymentMethod) ==
    IF paymentMethod \notin {"CASH", "GCASH"} THEN "error"
    ELSE IF r \notin DOMAIN rides THEN "error"
    ELSE IF rides[r].customer # u THEN "error"
    ELSE IF rides[r].status # "COMPLETED" THEN "error"
    ELSE "pending"

\* a payment that charges the fare anew
updatePaymentMethod_refare(u, r, paymentMethod) ==
    /\ Begin(updatePaymentMethod_checks(u, r, paymentMethod),
             Call("updatePaymentMethod", u, r, "save",
                  Modified(rides[r],
                           [rides[r] EXCEPT !.paymentMethod = paymentMethod,
                                            !.paymentConfirmedAt = Date,
                                            !.fare = 0],
                           {"paymentConfirmedAt"}),
                  {}))
    /\ UNCHANGED <<rides, onDutyRiders, loops, timeoutWrites, timeoutEmits, emitted,
                   connVars, radiusVars,
                   loginVars>>

\* paymentMethod and paymentConfirmedAt are assigned and save() is issued
updatePaymentMethod(u, r, paymentMethod) ==
    /\ Begin(updatePaymentMethod_checks(u, r, paymentMethod),
             Call("updatePaymentMethod", u, r, "save",
                  Modified(rides[r],
                           [rides[r] EXCEPT !.paymentMethod = paymentMethod,
                                            !.paymentConfirmedAt = Date],
                           {"paymentConfirmedAt"}),
                  {}))
    /\ UNCHANGED <<rides, onDutyRiders, loops, timeoutWrites, timeoutEmits, emitted,
                   connVars, radiusVars,
                   loginVars>>

\* ---------------------------------------------------------------- errors
\* the error a controller ends with; NoError: none
BadRequestError(message) == [name |-> "BadRequestError", message |-> message]
NotFoundError(message) == [name |-> "NotFoundError", message |-> message]
NoError == [name |-> "none", message |-> ""]

\* what acceptRide throws inside its try block for driver d and ride id r
acceptRide_try(d, r) ==
    IF r \notin DOMAIN rides THEN NotFoundError("Ride not found")
    ELSE IF rides[r].status # "SEARCHING_FOR_RIDER"
       THEN BadRequestError("Ride is no longer available for assignment")
    ELSE IF vehicleType[d] # rides[r].vehicle
       THEN BadRequestError("This ride requires another vehicle type")
    ELSE IF requestLocationSync(d) # {}
       THEN BadRequestError("Your location data needs to sync")
    ELSE IF d \notin DOMAIN onDutyRiders
       THEN BadRequestError("You must be on duty with a valid location")
    ELSE IF getDistance(onDutyRiders[d].coords.n, pickupOf[r])
                > getDistanceRadiusInMeters
       THEN BadRequestError("You are too far from the pickup location")
    ELSE NoError

\* the catch block of acceptRide: what the handler ends with
acceptRide_catch(d, r) ==
    IF acceptRide_try(d, r) = NoError THEN NoError
    ELSE BadRequestError("Failed to accept ride")

updateRideStatus_try(r, status) ==
    IF r \notin DOMAIN rides THEN NotFoundError("Ride not found")
    ELSE IF status \notin {"START", "ARRIVED", "COMPLETED"}
       THEN BadRequestError("Invalid ride status")
    ELSE NoError

updateRideStatus_catch(r, status) ==
    IF updateRideStatus_try(r, status) = NoError THEN NoError
    ELSE BadRequestError("Failed to update ride status")

\* a COMPLETED ride is answered with a response of its own, not an error
cancelRide_try(u, r) ==
    IF r \notin DOMAIN rides THEN NotFoundError("Ride not found")
    ELSE IF rides[r].customer # u /\ rides[r].rider # u
       THEN BadRequestError("You are not authorized to cancel this ride")
    ELSE IF rides[r].status = "COMPLETED" THEN NoError
    ELSE IF rides[r].status \notin {"SEARCHING_FOR_RIDER", "START", "ARRIVED"}
       THEN BadRequestError("Ride cannot be cancelled at this stage")
    ELSE NoError

cancelRide_catch(u, r) ==
    IF cancelRide_try(u, r) = NoError THEN NoError
    ELSE BadRequestError("Failed to cancel ride")

updatePaymentMethod_try(u, r) ==
    IF r \notin DOMAIN rides THEN NotFoundError("Ride not found")
    ELSE IF rides[r].customer # u
       THEN BadRequestError("Only the customer can set the payment method")
    ELSE IF rides[r].status # "COMPLETED"
       THEN BadRequestError(
               "Payment method can only be set for completed rides")
    ELSE NoError

\* the input checks of updatePaymentMethod stand before its try block
updatePaymentMethod_catch(u, r, paymentMethod) ==
    IF paymentMethod \notin {"CASH", "GCASH"}
       THEN BadRequestError("Invalid payment method. Must be CASH or GCASH")
    ELSE IF updatePaymentMethod_try(u, r) = NoError THEN NoError
    ELSE BadRequestError("Failed to update payment method")

\* ---------------------------------------------------------------- searchrider
\* riders.length > 0 at the retry's stop test: sendNearbyRiders is async and
\* is called without await, riders is a promise and has no length
ridersFound == FALSE

\* Ride.findById served; the closure {retries, rideAccepted, canceled}, its
\* interval timer and its three socket listeners are created.  check, final,
\* timeoutRide, save: the retrySearch invocations awaiting that storage call;
\* offer: the sendNearbyRiders calls of the loop that have not emitted yet;
\* observed: a tick of the closure has found the ride gone or resolved
searchrider(c, r) ==
    /\ loops' = IF r \notin DOMAIN rides THEN loops
                ELSE Append(loops,
                  [ride |-> r, user |-> c, retries |-> 0,
                   rideAccepted |-> FALSE, canceled |-> FALSE, active |-> TRUE,
                   check |-> 0, final |-> 0, timeoutRide |-> 0, save |-> 0,
                   offer |-> 0, observed |-> FALSE])
    /\ UNCHANGED <<rides, onDutyRiders, calls, timeoutWrites, timeoutEmits, emitted,
                   connVars, radiusVars,
                   loginVars>>

\* the interval timer fires: retrySearch starts and awaits Ride.findById
retrySearch(i) ==
    /\ i \in DOMAIN loops
    /\ loops[i].active /\ ~loops[i].canceled
    /\ InFlight < MaxInFlight
    /\ loops' = [loops EXCEPT ![i].check = @ + 1]
    /\ UNCHANGED <<rides, onDutyRiders, calls, timeoutWrites, timeoutEmits, emitted,
                   connVars, radiusVars,
                   loginVars>>

\* the interval timer fires while earlier invocations of the closure still
\* await storage, whatever else the server is serving
retrySearch_overlap(i) ==
    /\ i \in DOMAIN loops
    /\ loops[i].active /\ ~loops[i].canceled
    /\ Ticks(loops[i]) < MaxOverlap
    /\ loops' = [loops EXCEPT ![i].check = @ + 1]
    /\ UNCHANGED <<rides, onDutyRiders, calls, timeoutWrites, timeoutEmits,
                   emitted, connVars, radiusVars,
                   loginVars>>

\* a retry whose stop test sees the riders found
retrySearch_currentRide_awaited(i) ==
    /\ i \in DOMAIN loops /\ loops[i].check > 0
    /\ LET l == loops[i]
           r == l.ride
           found == \E d \in DOMAIN onDutyRiders :
                       /\ onDutyRiders[d].coords.t = "number"
                       /\ getDistance(pickupOf[r], onDutyRiders[d].coords.n)
                             <= getDistanceRadiusInMeters
       IN loops' = [loops EXCEPT ![i] =
            IF r \notin DOMAIN rides
               THEN [l EXCEPT !.check = @ - 1, !.active = FALSE,
                              !.observed = TRUE]
            ELSE IF rides[r].status # "SEARCHING_FOR_RIDER"
               THEN [l EXCEPT !.check = @ - 1, !.active = FALSE,
                              !.rideAccepted = TRUE, !.observed = TRUE]
            ELSE IF found \/ l.retries + 1 >= MAX_RETRIES
               THEN [l EXCEPT !.check = @ - 1, !.retries = @ + 1,
                              !.offer = @ + 1,
                              !.active = FALSE,
                              !.final = IF ~l.rideAccepted
                                           /\ l.retries + 1 >= MAX_RETRIES
                                        THEN @ + 1 ELSE @]
            ELSE [l EXCEPT !.check = @ - 1, !.retries = @ + 1,
                           !.offer = @ + 1]]
    /\ UNCHANGED <<rides, onDutyRiders, calls, timeoutWrites, timeoutEmits,
                   emitted, connVars, radiusVars,
                   loginVars>>

\* currentRide served: stop on a resolved ride, else count the retry, call
\* sendNearbyRiders (not awaited) and, at the budget, clear the timer and
\* start the final check
retrySearch_currentRide(i) ==
    /\ i \in DOMAIN loops /\ loops[i].check > 0
    /\ LET l == loops[i]
           r == l.ride
       IN loops' = [loops EXCEPT ![i] =
            IF r \notin DOMAIN rides
               THEN [l EXCEPT !.check = @ - 1, !.active = FALSE,
                              !.observed = TRUE]
            ELSE IF rides[r].status # "SEARCHING_FOR_RIDER"
               THEN [l EXCEPT !.check = @ - 1, !.active = FALSE,
                              !.rideAccepted = TRUE, !.observed = TRUE]
            ELSE IF ridersFound \/ l.retries + 1 >= MAX_RETRIES
               THEN [l EXCEPT !.check = @ - 1, !.retries = @ + 1,
                              !.offer = @ + 1,
                              !.active = FALSE,
                              !.final = IF ~l.rideAccepted
                                           /\ l.retries + 1 >= MAX_RETRIES
                                        THEN @ + 1 ELSE @]
            ELSE [l EXCEPT !.check = @ - 1, !.retries = @ + 1,
                           !.offer = @ + 1]]
    /\ UNCHANGED <<rides, onDutyRiders, calls, timeoutWrites, timeoutEmits, emitted,
                   connVars, radiusVars,
                   loginVars>>

\* the riders sendNearbyRiders collects from the registry, with their
\* distance to `location`: the records whose coordinates are numbers and not
\* NaN (the model takes the registry in an arbitrary order)
RECURSIVE nearbyRidersArray(_, _)
nearbyRidersArray(S, location) ==
    IF S = {} THEN <<>>
    ELSE LET d == CHOOSE x \in S : TRUE
             rider == onDutyRiders[d]
         IN  IF typeof(rider.coords) # "number" \/ isNaN(rider.coords)
             THEN nearbyRidersArray(S \ {d}, location)
             ELSE <<[riderId |-> d,
                     distance |-> getDistance(location, rider.coords.n),
                     socketId |-> rider.socketId]>>
                  \o nearbyRidersArray(S \ {d}, location)

\* Array.sort((a, b) => a.distance - b.distance): stable, ascending
RECURSIVE sortByDistance(_)
sortByDistance(arr) ==
    IF arr = <<>> THEN <<>>
    ELSE LET x == arr[Len(arr)]
             init == sortByDistance(SubSeq(arr, 1, Len(arr) - 1))
             before == SelectSeq(init, LAMBDA y : y.distance <= x.distance)
             after == SelectSeq(init, LAMBDA y : y.distance > x.distance)
         IN  before \o <<x>> \o after

\* a result that is sorted and not filtered
sendNearbyRiders_return_all(location) ==
    sortByDistance(nearbyRidersArray(DOMAIN onDutyRiders, location))

\* what sendNearbyRiders returns and emits as nearbyriders for a valid
\* location: the collected riders within the radius, nearest first
sendNearbyRiders_return(location) ==
    sortByDistance(
       SelectSeq(nearbyRidersArray(DOMAIN onDutyRiders, location),
                 LAMBDA rider : rider.distance <= getDistanceRadiusInMeters))

\* the on-duty drivers sendNearbyRiders keeps for ride r: within the radius
\* of the pickup; the ride's blacklist and vehicle type are not looked at
nearbyriders(r) ==
    {sendNearbyRiders_return(pickupOf[r])[i].riderId :
        i \in DOMAIN sendNearbyRiders_return(pickupOf[r])}

\* a sendNearbyRiders call of the loop has collected the drivers and emits
\* rideOffer, with the ride the closure holds, to each of nearbyriders
sendNearbyRiders(i) ==
    /\ i \in DOMAIN loops /\ loops[i].offer > 0
    /\ loops' = [loops EXCEPT ![i].offer = @ - 1]
    /\ UNCHANGED <<rides, onDutyRiders, calls, timeoutWrites, timeoutEmits, emitted,
                   connVars, radiusVars,
                   loginVars>>

\* finalCheck served
retrySearch_finalCheck(i) ==
    /\ i \in DOMAIN loops /\ loops[i].final > 0
    /\ LET l == loops[i]
           r == l.ride
       IN loops' = [loops EXCEPT ![i] =
            IF r \notin DOMAIN rides \/ rides[r].status # "SEARCHING_FOR_RIDER"
            THEN [l EXCEPT !.final = @ - 1]
            ELSE [l EXCEPT !.final = @ - 1, !.timeoutRide = @ + 1]]
    /\ UNCHANGED <<rides, onDutyRiders, calls, timeoutWrites, timeoutEmits, emitted,
                   connVars, radiusVars,
                   loginVars>>

\* timeoutRide served: status is assigned TIMEOUT and save() is issued only
\* for a ride read as SEARCHING_FOR_RIDER; for any other ride the handler
\* ends with the error event to the customer's connection
retrySearch_timeoutRide(i) ==
    /\ i \in DOMAIN loops /\ loops[i].timeoutRide > 0
    /\ LET l == loops[i]
           r == l.ride
       IN IF r \in DOMAIN rides /\ rides[r].status = "SEARCHING_FOR_RIDER"
          THEN /\ loops' = [loops EXCEPT ![i] =
                             [l EXCEPT !.timeoutRide = @ - 1, !.save = @ + 1]]
               /\ UNCHANGED emitted
          ELSE /\ loops' = [loops EXCEPT ![i] =
                             [l EXCEPT !.timeoutRide = @ - 1]]
               /\ emitted' = emitted \cup
                     {Emit(<<"socket", l.user>>, "error", NULL)}
    /\ UNCHANGED <<rides, onDutyRiders, calls, timeoutWrites, timeoutEmits,
                   connVars, radiusVars,
                   loginVars>>

\* timeoutRide.save() served, then rideOfferTimeout and rideCanceled are
\* emitted to the onDuty room and the error event to the customer's
\* connection
retrySearch_save(i) ==
    /\ i \in DOMAIN loops /\ loops[i].save > 0
    /\ LET r == loops[i].ride IN
       /\ rides' = [rides EXCEPT ![r] = Save(@, {<<"status", "TIMEOUT">>}, {})]
       /\ timeoutWrites' = [timeoutWrites EXCEPT ![r] = @ + 1]
       /\ timeoutEmits' = [timeoutEmits EXCEPT ![r] = @ + 1]
       /\ emitted' = emitted \cup
             {Emit(OnDuty, "rideOfferTimeout", r),
              Emit(OnDuty, "rideCanceled", r),
              Emit(<<"socket", loops[i].user>>, "error", NULL)}
    /\ loops' = [loops EXCEPT ![i].save = @ - 1]
    /\ UNCHANGED <<onDutyRiders, calls, connVars, radiusVars,
                   loginVars>>

\* the closures listening on customer c's connection
LoopsOf(c) == {i \in DOMAIN loops : loops[i].user = c}

\* socket event rideAccepted: every closure on the connection stops its timer
rideAccepted(c) ==
    /\ LoopsOf(c) # {}
    /\ loops' = [i \in DOMAIN loops |->
                   IF i \in LoopsOf(c)
                   THEN [loops[i] EXCEPT !.rideAccepted = TRUE, !.active = FALSE]
                   ELSE loops[i]]
    /\ UNCHANGED <<rides, onDutyRiders, calls, timeoutWrites, timeoutEmits, emitted,
                   connVars, radiusVars,
                   loginVars>>

\* socket event rideCompleted: the same
rideCompleted(c) ==
    /\ LoopsOf(c) # {}
    /\ loops' = [i \in DOMAIN loops |->
                   IF i \in LoopsOf(c)
                   THEN [loops[i] EXCEPT !.rideAccepted = TRUE, !.active = FALSE]
                   ELSE loops[i]]
    /\ UNCHANGED <<rides, onDutyRiders, calls, timeoutWrites, timeoutEmits, emitted,
                   connVars, radiusVars,
                   loginVars>>

\* socket event cancelRide with data {rideId, reason}: every closure on the
\* connection sets canceled, clears its timer and starts reading its own
\* ride; rideId is not read
socketCancelRide(c, rideId, reason) ==
    /\ LoopsOf(c) # {}
    /\ InFlight + Cardinality(LoopsOf(c)) <= MaxInFlight
    /\ loops' = [i \in DOMAIN loops |->
                   IF i \in LoopsOf(c)
                   THEN [loops[i] EXCEPT !.canceled = TRUE, !.active = FALSE]
                   ELSE loops[i]]
    /\ calls' = calls \cup
          {[Call("socketCancelRide", c, loops[i].ride, "read", {}, {})
               EXCEPT !.arg = reason, !.named = rideId, !.loop = i] : i \in LoopsOf(c)}
    /\ UNCHANGED <<rides, onDutyRiders, timeoutWrites, timeoutEmits, emitted,
                   connVars, radiusVars,
                   loginVars>>

\* the closure's Ride.findById and its check: how that segment ends
socketCancelRide_checks(r) ==
    IF r \notin DOMAIN rides THEN "noop"
    ELSE IF rides[r].status = "COMPLETED" THEN "noop"
    ELSE "pending"

\* the closure's Ride.findById served: a COMPLETED ride is left alone, any
\* other is assigned the cancellation and save() is issued
socketCancelRide_read(c) ==
    /\ c \in calls /\ c.op = "socketCancelRide" /\ c.pc = "read"
    /\ calls' = IF socketCancelRide_checks(c.ride) = "pending"
                THEN (calls \ {c}) \cup
                     {[c EXCEPT !.pc = "save", !.arg = NULL,
                         !.delta = Modified(rides[c.ride],
                                     Cancelled(rides[c.ride], "customer",
                                               Name(rides[c.ride].customer),
                                               c.arg),
                                     {"cancelledAt"})]}
                ELSE calls \ {c}
    /\ UNCHANGED <<rides, onDutyRiders, loops, timeoutWrites, timeoutEmits, emitted,
                   connVars, radiusVars,
                   loginVars>>

\* ---------------------------------------------------------------- save
\* any handler's save() served: the update is applied to the stored document
\* as it is now, and the handler reports success
save(c) ==
    /\ c \in calls /\ c.pc = "save"
    /\ rides' = [rides EXCEPT ![c.ride] = Save(@, c.delta, c.push)]
    /\ calls' = calls \ {c}
    /\ UNCHANGED <<onDutyRiders, loops, timeoutWrites, timeoutEmits, emitted,
                   connVars, radiusVars,
                   loginVars>>

Next ==
    \/ \E c \in Customers, r \in RideIds, v \in Vehicles : createRide(c, r, v)
    \/ \E d \in Drivers, pos \in Positions : goOnDuty(d, pos)
    \/ \E d \in Drivers : \E h \in Live(d) : goOffDuty(d, h)
    \/ \E d \in Drivers, r \in RideIds : acceptRide(d, r)
    \/ \E c \in calls : acceptRide_user(c)
    \/ \E r \in RideIds, st \in StatusInputs : updateRideStatus(r, st)
    \/ \E u \in Users, r \in RideIds, reason \in Reasons : cancelRide(u, r, reason)
    \/ \E u \in Users, r \in RideIds, reason \in Reasons :
          customerCancelRide(u, r, reason)
    \/ \E c \in calls : save(c)
    \/ \E c \in Customers, r \in RideIds :
          Len(loops) < MaxLoops /\ searchrider(c, r)
    \/ \E i \in DOMAIN loops : retrySearch(i)
    \/ \E i \in DOMAIN loops : retrySearch_currentRide(i)
    \/ \E i \in DOMAIN loops : sendNearbyRiders(i)
    \/ \E i \in DOMAIN loops : retrySearch_finalCheck(i)
    \/ \E i \in DOMAIN loops : retrySearch_timeoutRide(i)
    \/ \E i \in DOMAIN loops : retrySearch_save(i)
    \/ \E c \in Customers : rideAccepted(c)
    \/ \E c \in Customers : rideCompleted(c)
    \/ \E c \in Customers, r \in RideIds, reason \in Reasons :
          socketCancelRide(c, r, reason)
    \/ \E c \in calls : socketCancelRide_read(c)

Spec == Init /\ [][Next]_vars

\* the customer's connection and the dispatch loops alone, with several
\* searchrider events
NextLoops ==
    \/ \E c \in Customers, r \in RideIds, v \in Vehicles : createRide(c, r, v)
    \/ \E c \in Customers, r \in RideIds :
          Len(loops) < MaxClosures /\ searchrider(c, r)
    \/ \E i \in DOMAIN loops : retrySearch(i)
    \/ \E i \in DOMAIN loops : retrySearch_currentRide(i)
    \/ \E i \in DOMAIN loops : sendNearbyRiders(i)
    \/ \E i \in DOMAIN loops : retrySearch_finalCheck(i)
    \/ \E i \in DOMAIN loops : retrySearch_timeoutRide(i)
    \/ \E i \in DOMAIN loops : retrySearch_save(i)
    \/ \E c \in Customers : rideAccepted(c)
    \/ \E c \in Customers : rideCompleted(c)
    \/ \E c \in Customers, r \in RideIds, reason \in Reasons :
          socketCancelRide(c, r, reason)
    \/ \E c \in calls : socketCancelRide_read(c)
    \/ \E c \in calls : save(c)

SpecLoops == Init /\ [][NextLoops]_vars

\* the dispatch loop with drivers going on and off duty at several distances
NextNearby ==
    \/ NextLoops
    \/ \E d \in Drivers, pos \in NearbyPositions : goOnDuty(d, pos)
    \/ \E d \in Drivers : \E h \in Live(d) : goOffDuty(d, h)

SpecNearby == Init /\ [][NextNearby]_vars

\* the same with the timer of every closure firing while it is set and
\* every storage call of a loop served
SpecNearbyFair ==
    /\ SpecNearby
    /\ WF_vars(\E c \in calls : socketCancelRide_read(c))
    /\ WF_vars(\E c \in calls : save(c))
    /\ \A i \in 1 .. MaxClosures :
          /\ WF_vars(retrySearch(i))
          /\ WF_vars(retrySearch_currentRide(i))
          /\ WF_vars(sendNearbyRiders(i))
          /\ WF_vars(retrySearch_finalCheck(i))
          /\ WF_vars(retrySearch_timeoutRide(i))
          /\ WF_vars(retrySearch_save(i))

\* one dispatch loop whose ticks overlap, the client's signals and the
\* customer's cancel
NextOverlap ==
    \/ \E c \in Customers, r \in RideIds, v \in Vehicles : createRide(c, r, v)
    \/ \E c \in Customers, r \in RideIds :
          Len(loops) < MaxLoops /\ searchrider(c, r)
    \/ \E i \in DOMAIN loops : retrySearch_overlap(i)
    \/ \E i \in DOMAIN loops : retrySearch_currentRide(i)
    \/ \E i \in DOMAIN loops : sendNearbyRiders(i)
    \/ \E i \in DOMAIN loops : retrySearch_finalCheck(i)
    \/ \E i \in DOMAIN loops : retrySearch_timeoutRide(i)
    \/ \E i \in DOMAIN loops : retrySearch_save(i)
    \/ \E c \in Customers : rideAccepted(c)
    \/ \E c \in Customers : rideCompleted(c)
    \/ \E u \in Customers, r \in RideIds, reason \in Reasons :
          customerCancelRide(u, r, reason)
    \/ \E c \in calls : save(c)

SpecOverlap == Init /\ [][NextOverlap]_vars

\* every handler that writes to a ride, the payment included
NextFrame ==
    \/ \E c \in Customers, r \in RideIds, v \in Vehicles : createRide(c, r, v)
    \/ \E d \in Drivers, pos \in Positions : goOnDuty(d, pos)
    \/ \E d \in Drivers, r \in RideIds : acceptRide(d, r)
    \/ \E c \in calls : acceptRide_user(c)
    \/ \E r \in RideIds, st \in StatusInputs : updateRideStatus(r, st)
    \/ \E u \in Users, r \in RideIds, reason \in Reasons : cancelRide(u, r, reason)
    \/ \E u \in Users, r \in RideIds, reason \in Reasons :
          customerCancelRide(u, r, reason)
    \/ \E u \in Users, r \in RideIds, pm \in PaymentInputs :
          updatePaymentMethod(u, r, pm)
    \/ \E c \in calls : save(c)
    \/ \E c \in Customers, r \in RideIds :
          Len(loops) < MaxLoops /\ searchrider(c, r)
    \/ \E i \in DOMAIN loops : retrySearch(i)
    \/ \E i \in DOMAIN loops : retrySearch_currentRide(i)
    \/ \E i \in DOMAIN loops : sendNearbyRiders(i)
    \/ \E i \in DOMAIN loops : retrySearch_finalCheck(i)
    \/ \E i \in DOMAIN loops : retrySearch_timeoutRide(i)
    \/ \E i \in DOMAIN loops : retrySearch_save(i)
    \/ \E c \in Customers, r \in RideIds, reason \in Reasons :
          socketCancelRide(c, r, reason)
    \/ \E c \in calls : socketCancelRide_read(c)

SpecFrame == Init /\ [][NextFrame]_vars

\* createRide with any body, and the drivers' duty
NextCreate ==
    \/ \E c \in Customers, r \in CreatedIds, vehicle \in VehicleInputs,
          pickup \in LocationInputs, drop \in LocationInputs,
          passengerCount \in PassengerInputs :
          createRide_request(c, r, vehicle, pickup, drop, passengerCount)
    \/ \E d \in Drivers, pos \in Positions : goOnDuty(d, pos)
    \/ \E d \in Drivers : \E h \in Live(d) : goOffDuty(d, h)

SpecCreate == Init /\ [][NextCreate]_vars

\* the cancel entry points, open to the accounts that own no ride as well
NextAuth ==
    \/ \E c \in Customers, r \in RideIds, v \in Vehicles : createRide(c, r, v)
    \/ \E d \in Drivers, pos \in Positions : goOnDuty(d, pos)
    \/ \E d \in Drivers, r \in RideIds : acceptRide(d, r)
    \/ \E c \in calls : acceptRide_user(c)
    \/ \E u \in Users \cup Strangers, r \in RideIds, reason \in Reasons :
          cancelRide(u, r, reason)
    \/ \E u \in Users \cup Strangers, r \in RideIds, reason \in Reasons :
          customerCancelRide(u, r, reason)
    \/ \E c \in Customers \cup Strangers, r \in RideIds :
          Len(loops) < MaxClosures /\ searchrider(c, r)
    \/ \E c \in Customers \cup Strangers, r \in RideIds, reason \in Reasons :
          socketCancelRide(c, r, reason)
    \/ \E c \in calls : socketCancelRide_read(c)
    \/ \E c \in calls : save(c)

SpecAuth == Init /\ [][NextAuth]_vars

\* acceptance with drivers near and far and rides of several vehicle types
NextAccept ==
    \/ \E c \in Customers, r \in RideIds, v \in AllVehicles : createRide(c, r, v)
    \/ \E d \in Drivers, pos \in AllPositions : goOnDuty(d, pos)
    \/ \E d \in Drivers : \E h \in Live(d) : goOffDuty(d, h)
    \/ \E d \in Drivers, r \in RideIds : acceptRide(d, r)
    \/ \E c \in calls : acceptRide_user(c)
    \/ \E r \in RideIds, st \in StatusInputs : updateRideStatus(r, st)
    \/ \E u \in Users, r \in RideIds, reason \in Reasons : cancelRide(u, r, reason)
    \/ \E c \in calls : save(c)

SpecAccept == Init /\ [][NextAccept]_vars

\* the drivers' connections and the presence registry, each handler with
\* its await; the connections of the drivers in Roamers come and go
NextRegistry ==
    \/ \E d \in Roamers : connection(d)
    \/ \E d \in Roamers : \E h \in Live(d) : \E coords \in CoordInputs :
          goOnDuty_event(d, h, coords)
    \/ \E p \in pendingDuty : goOnDuty_user(p)
    \/ \E d \in Drivers, pos \in AllPositions : goOnDuty(d, pos)
    \/ \E d \in Drivers : \E h \in Live(d) : goOffDuty(d, h)
    \/ \E d \in Drivers : \E h \in Live(d) : \E coords \in CoordInputs :
          updateLocation(d, h, coords)
    \/ \E p \in pendingDuty : updateLocation_user(p)
    \/ \E d \in Roamers : \E h \in Live(d) : disconnect(d, h)
    \/ \E d \in Roamers, h \in Handles : disconnect_timeout(d, h)

SpecRegistry == Init /\ [][NextRegistry]_vars

\* the connections and the registry next to the acceptance of a ride, every
\* driver at the pickup
NextSync ==
    \/ \E d \in Drivers : connection(d)
    \/ \E d \in Drivers : \E h \in Live(d) :
          goOnDuty_event(d, h, Number(0))
    \/ \E p \in pendingDuty : goOnDuty_user(p)
    \/ \E d \in Drivers : \E h \in Live(d) : goOffDuty(d, h)
    \/ \E d \in Drivers : \E h \in Live(d) : disconnect(d, h)
    \/ \E d \in Drivers, h \in Handles : disconnect_timeout(d, h)
    \/ \E c \in Customers, r \in RideIds, v \in Vehicles : createRide(c, r, v)
    \/ \E d \in Drivers, r \in RideIds : acceptRide(d, r)
    \/ \E c \in calls : acceptRide_user(c)
    \/ \E c \in calls : save(c)

SpecSync == Init /\ [][NextSync]_vars

\* the DISTANCE_RADIUS setting, its two update handlers and the cached read
NextRadius ==
    \/ tick
    \/ getDistanceRadiusInMeters_call
    \/ \E p \in pendingSettings : getDistanceRadiusInMeters_findOne(p)
    \/ \E p \in pendingSettings : getDistanceRadiusInMeters_create(p)
    \/ \E p \in pendingSettings : getDistanceRadiusInMeters_cache(p)
    \/ \E value \in SettingInputs : updateSetting(value)
    \/ \E value \in SettingInputs : bulkUpdateSettings(value)
    \/ \E p \in pendingSettings : findOneAndUpdate(p)
    \/ \E p \in pendingSettings : updateSetting_log(p)
    \/ \E p \in pendingSettings : bulkUpdateSettings_log(p)

SpecRadius == Init /\ [][NextRadius]_vars

\* one customer's connection with two rides: a searchrider event for each,
\* the client's signals and cancelRide events
NextTwoRides ==
    \/ \E c \in Customers, r \in CreatedIds :
          createRide_request(c, r, "Tricycle", Location(Number(5), Number(5)),
                             Location(Number(5), Number(5)), undefined)
    \/ \E c \in Customers, r \in CreatedIds :
          Len(loops) < MaxClosures /\ searchrider(c, r)
    \/ \E c \in Customers : rideAccepted(c)
    \/ \E c \in Customers, r \in CreatedIds, reason \in Reasons :
          socketCancelRide(c, r, reason)
    \/ \E c \in calls : socketCancelRide_read(c)
    \/ \E c \in calls : save(c)

SpecTwoRides == Init /\ [][NextTwoRides]_vars

\* ---------------------------------------------------------------- admin-login
\* LOGIN_CONFIG
MAX_ATTEMPTS == 5
LOCKOUT_MINUTES == 30
\* the minutes the clock of the login runs advances at a time
LoginStep == LOCKOUT_MINUTES \div 3
\* what a client sends for the one email of the login runs: an email no
\* admin has, the admin's email with a wrong password, or with the right one
CredentialInputs == {"invalid_email", "invalid_password", "correct"}

\* the failures countRecentFailedAttempts and checkLockoutStatus count
Counted(attempt) ==
    /\ ~attempt.success
    /\ attempt.failureReason \in {"invalid_email", "invalid_password"}

\* the latest createdAt among the documents of a sequence (0: none)
RECURSIVE mostRecentAttempt(_)
mostRecentAttempt(attempts) ==
    IF attempts = <<>> THEN 0
    ELSE LET rest == mostRecentAttempt(Tail(attempts))
         IN IF Head(attempts).createdAt >= rest
            THEN Head(attempts).createdAt ELSE rest

\* LoginAttempt.checkLockoutStatus at Date.now() = t over the stored
\* documents: the counted failures created from t - LOCKOUT_MINUTES on; with
\* MAX_ATTEMPTS of them and the most recent one less than LOCKOUT_MINUTES
\* old the email is locked until lockoutEndsAt (0: none reported)
checkLockoutStatus(attempts, t) ==
    LET windowStart == t - LOCKOUT_MINUTES
        failedAttempts ==
           SelectSeq(attempts,
                     LAMBDA a : Counted(a) /\ a.createdAt >= windowStart)
        attemptCount == Len(failedAttempts)
        lockoutEndsAt == mostRecentAttempt(failedAttempts) + LOCKOUT_MINUTES
    IN IF attemptCount >= MAX_ATTEMPTS /\ lockoutEndsAt - t > 0
       THEN [isLocked |-> TRUE, failedAttempts |-> attemptCount,
             lockoutEndsAt |-> lockoutEndsAt]
       ELSE [isLocked |-> FALSE, failedAttempts |-> attemptCount,
             lockoutEndsAt |-> 0]

\* Date.now() advances
minutes ==
    /\ minute < MaxLoginClock * LoginStep
    /\ minute' = minute + LoginStep
    /\ UNCHANGED <<rides, onDutyRiders, calls, loops, timeoutWrites,
                   timeoutEmits, emitted, connVars, radiusVars,
                   loginAttempts, pendingLogins>>

\* POST /admin-login with email and password: the handler awaits
\* checkLockoutStatus
adminLogin(credentials) ==
    /\ Cardinality(pendingLogins) < MaxInFlight
    /\ Len(loginAttempts) + Cardinality(pendingLogins) < MaxLogins
    /\ pendingLogins' = pendingLogins \cup
          {[pc |-> "checkLockoutStatus", credentials |-> credentials]}
    /\ UNCHANGED <<rides, onDutyRiders, calls, loops, timeoutWrites,
                   timeoutEmits, emitted, connVars, radiusVars,
                   loginAttempts, minute>>

\* checkLockoutStatus served: a locked email is refused as account_locked;
\* else User.findOne and comparePassword settle the attempt; in every case
\* recordAttempt is issued
adminLogin_checkLockoutStatus(p) ==
    /\ p \in pendingLogins /\ p.pc = "checkLockoutStatus"
    /\ pendingLogins' = (pendingLogins \ {p}) \cup
          {[pc |-> "recordAttempt",
            credentials |->
               IF checkLockoutStatus(loginAttempts, minute).isLocked
               THEN "account_locked" ELSE p.credentials]}
    /\ UNCHANGED <<rides, onDutyRiders, calls, loops, timeoutWrites,
                   timeoutEmits, emitted, connVars, radiusVars,
                   loginAttempts, minute>>

\* recordAttempt served: the document is created with the time of day; a
\* successful login goes on to clearFailedAttempts, a failure answers (with
\* a second checkLockoutStatus that only shapes the response)
adminLogin_recordAttempt(p) ==
    /\ p \in pendingLogins /\ p.pc = "recordAttempt"
    /\ loginAttempts' = Append(loginAttempts,
          [createdAt |-> minute,
           success |-> (p.credentials = "correct"),
           failureReason |-> IF p.credentials = "correct" THEN NULL
                             ELSE p.credentials])
    /\ pendingLogins' = (pendingLogins \ {p}) \cup
          (IF p.credentials = "correct"
           THEN {[p EXCEPT !.pc = "clearFailedAttempts"]} ELSE {})
    /\ UNCHANGED <<rides, onDutyRiders, calls, loops, timeoutWrites,
                   timeoutEmits, emitted, connVars, radiusVars, minute>>

\* clearFailedAttempts served: deleteMany of the email's documents with
\* success false
adminLogin_clearFailedAttempts(p) ==
    /\ p \in pendingLogins /\ p.pc = "clearFailedAttempts"
    /\ loginAttempts' = SelectSeq(loginAttempts, LAMBDA a : a.success)
    /\ pendingLogins' = pendingLogins \ {p}
    /\ UNCHANGED <<rides, onDutyRiders, calls, loops, timeoutWrites,
                   timeoutEmits, emitted, connVars, radiusVars, minute>>

\* the legacy admin login for one email
NextLogin ==
    \/ minutes
    \/ \E credentials \in CredentialInputs : adminLogin(credentials)
    \/ \E p \in pendingLogins : adminLogin_checkLockoutStatus(p)
    \/ \E p \in pendingLogins : adminLogin_recordAttempt(p)
    \/ \E p \in pendingLogins : adminLogin_clearFailedAttempts(p)

SpecLogin == Init /\ [][NextLogin]_vars

\* the cached radius with updateSetting as the only change of the setting
NextInvalidate ==
    \/ tick
    \/ getDistanceRadiusInMeters_call
    \/ \E p \in pendingSettings : getDistanceRadiusInMeters_findOne(p)
    \/ \E p \in pendingSettings : getDistanceRadiusInMeters_create(p)
    \/ \E p \in pendingSettings : getDistanceRadiusInMeters_cache(p)
    \/ \E value \in SettingInputs : updateSetting(value)
    \/ \E p \in pendingSettings : findOneAndUpdate(p)
    \/ \E p \in pendingSettings : updateSetting_log(p)

SpecInvalidate == Init /\ [][NextInvalidate]_vars

\* ---------------------------------------------------------------- claims
\* the segment in which a handler makes its first read of the ride leaves
\* this record behind when the handler goes on
FirstSegment(c) ==
    IF c.op = "acceptRide" THEN c.pc = "user" ELSE c.pc = "save"

\* the handler invocations whose save() is served in this step
Saved == {c \in calls \ calls' : c.pc = "save"}

\* C1: acceptRide on a ride whose stored status is not SEARCHING_FOR_RIDER
\* ends in an error and goes no further: no accept invocation is left to
\* write to the ride, whose fields all stay as they are.
C1_AcceptNeedsSearching ==
    [][\A r \in DOMAIN rides :
          rides[r].status # "SEARCHING_FOR_RIDER" =>
             /\ acceptRide_status(r) = "error"
             /\ \A d \in Drivers : acceptRide(d, r) => UNCHANGED rides
             /\ \A c \in calls' \ calls :
                   ~(c.op = "acceptRide" /\ c.ride = r /\ FirstSegment(c))]_vars

C1_Witness ==
    \E r \in DOMAIN rides :
       /\ rides[r].status = "TIMEOUT"
       /\ acceptRide_status(r) = "error"
       /\ \A c \in calls : c.op # "acceptRide"

\* C2: of the accepts of one ride by different drivers at most one succeeds:
\* once a rider is persisted, no other driver's accept writes the ride (and
\* answers with success).
C2_AcceptRevalidates ==
    [][\A c \in Saved :
          c.op = "acceptRide" => rides[c.ride].rider \in {NULL, c.user}]_vars

\* C3: a handler that starts (makes its first read) on a COMPLETED ride is a
\* no-op or is rejected: acceptRide, updateRideStatus, cancelRide, the socket
\* cancelRide and customerCancelRide all end there, none goes on to a save().
C3_CompletedRejectsLater ==
    [][\A r \in DOMAIN rides :
          rides[r].status = "COMPLETED" =>
             /\ acceptRide_status(r) = "error"
             /\ \A st \in StatusInputs :
                   updateRideStatus_checks(r, st) \in {"noop", "error"}
             /\ \A u \in Users :
                   /\ cancelRide_checks(u, r) \in {"rejected", "error"}
                   /\ customerCancelRide_checks(u, r) = "error"
             /\ socketCancelRide_checks(r) = "noop"
             /\ \A c \in calls' \ calls : ~(c.ride = r /\ FirstSegment(c))]_vars

C3_Witness ==
    \E r \in DOMAIN rides :
       /\ rides[r].status = "COMPLETED"
       /\ rides[r].rider # NULL
       /\ updateRideStatus_checks(r, "START") = "noop"
       /\ \E c \in calls : c.op = "socketCancelRide" /\ c.pc = "read"

\* C4: COMPLETED is absorbing under every interleaving: no step takes a
\* ride's stored status from COMPLETED to anything else.
C4_CompletedAbsorbing ==
    [][\A r \in DOMAIN rides :
          rides[r].status = "COMPLETED" => rides'[r].status = "COMPLETED"]_vars

\* C5: a ride is written to TIMEOUT at most once and its timeout broadcast
\* is emitted at most once, also when retrySearch invocations overlap.
C5_TimeoutOnce ==
    \A r \in RideIds : timeoutWrites[r] <= 1 /\ timeoutEmits[r] <= 1

\* C6: the status that TIMEOUT replaces in storage is SEARCHING_FOR_RIDER.
C6_TimeoutReplacesSearching ==
    [][\A r \in DOMAIN rides :
          (rides'[r].status = "TIMEOUT" /\ rides[r].status # "TIMEOUT")
             => rides[r].status = "SEARCHING_FOR_RIDER"]_vars

\* C7: every ride has a dispatch loop from its creation on.
C7_LoopFromCreation ==
    \A r \in DOMAIN rides : \E i \in DOMAIN loops : loops[i].ride = r

\* C8: at any time at most one interval timer is active per ride.
C8_OneLoopPerRide ==
    \A r \in RideIds :
       Cardinality({i \in DOMAIN loops : loops[i].ride = r /\ loops[i].active})
          <= 1

\* stages of the main line of a ride
Rank(st) == CASE st = "SEARCHING_FOR_RIDER" -> 0
              [] st = "START" -> 1
              [] st = "ARRIVED" -> 2
              [] st = "COMPLETED" -> 3
              [] OTHER -> 4

\* C9: along SEARCHING_FOR_RIDER < START < ARRIVED < COMPLETED no step moves
\* a ride to an earlier stage, and none moves it from SEARCHING_FOR_RIDER
\* straight to ARRIVED or COMPLETED.
C9_StatusMonotonic ==
    [][\A r \in DOMAIN rides :
          (Rank(rides[r].status) < 4 /\ Rank(rides'[r].status) < 4) =>
             /\ Rank(rides'[r].status) >= Rank(rides[r].status)
             /\ Rank(rides[r].status) = 0 => Rank(rides'[r].status) <= 1]_vars

\* C10: a status update served on a CANCELLED or TIMEOUT ride leaves the
\* status as it is.
C10_SideStatesTerminal ==
    [][\A c \in Saved :
          (c.op = "updateRideStatus"
             /\ rides[c.ride].status \in {"CANCELLED", "TIMEOUT"})
             => rides'[c.ride].status = rides[c.ride].status]_vars

\* the handlers that cancel a ride
CancelOps == {"cancelRide", "socketCancelRide", "customerCancelRide"}

\* C11: on every cancel entry point a cancel of a ride that is CANCELLED or
\* TIMEOUT fails: no cancel handler that reads such a ride goes on to write
\* status or the cancellation fields.
C11_CancelNeedsOpenRide ==
    [][\A c \in calls' \ calls :
          (c.op \in CancelOps /\ FirstSegment(c))
             => rides[c.ride].status \notin {"CANCELLED", "TIMEOUT"}]_vars

\* C12: on every cancel entry point only the ride's customer or its assigned
\* driver gets past the checks: a cancel by anyone else writes nothing.
C12_CancelAuthorized ==
    [][\A c \in calls' \ calls :
          (c.op \in CancelOps /\ FirstSegment(c))
             => c.user \in {rides[c.ride].customer, rides[c.ride].rider}]_vars

\* C13: an on-duty driver's cancel of a ride that is SEARCHING_FOR_RIDER is
\* served: it adds the driver to blacklistedRiders, leaves rider null and
\* keeps the status SEARCHING_FOR_RIDER.
C13_DeclineBlacklists ==
    \A r \in DOMAIN rides : \A d \in DOMAIN onDutyRiders :
       rides[r].status = "SEARCHING_FOR_RIDER" =>
          /\ cancelRide_checks(d, r) = "pending"
          /\ cancelRidePush(rides[r], d) = {d}
          /\ cancelRideLocal(rides[r], d, NULL).rider = NULL
          /\ cancelRideLocal(rides[r], d, NULL).status = "SEARCHING_FOR_RIDER"

\* C14: the assigned driver's cancel, written to a ride in START or ARRIVED,
\* leaves it CANCELLED with cancelledBy = rider, and no step takes a ride
\* back to SEARCHING_FOR_RIDER.
C14_DriverCancelCloses ==
    [][/\ \A c \in Saved :
             (/\ c.op = "cancelRide"
              /\ c.user = rides[c.ride].rider
              /\ rides[c.ride].status \in {"START", "ARRIVED"})
                => /\ rides'[c.ride].status = "CANCELLED"
                   /\ rides'[c.ride].cancelledBy = "rider"
       /\ \A r \in DOMAIN rides :
             rides[r].status # "SEARCHING_FOR_RIDER"
                => rides'[r].status # "SEARCHING_FOR_RIDER"]_vars

\* C15: no rideOffer of the dispatch loop goes to a driver who is in the
\* ride's blacklistedRiders.
C15_NoOfferToBlacklisted ==
    [][\A i \in DOMAIN loops :
          loops'[i].offer < loops[i].offer =>
             \A d \in nearbyriders(loops[i].ride) :
                d \notin rides[loops[i].ride].blacklistedRiders]_vars

\* C16: blacklistedRiders only grows: after every step the blacklist of
\* every ride contains the blacklist it had before.
C16_BlacklistGrows ==
    [][\A r \in DOMAIN rides :
          rides[r].blacklistedRiders \subseteq rides'[r].blacklistedRiders]_vars

C16_Witness ==
    \E r \in DOMAIN rides :
       /\ rides[r].blacklistedRiders # {}
       /\ rides[r].cancelledBy = "customer"

\* C17: a ride whose status is START, ARRIVED or COMPLETED has a rider.
C17_ActiveHasRider ==
    \A r \in DOMAIN rides :
       rides[r].status \in {"START", "ARRIVED", "COMPLETED"}
          => rides[r].rider # NULL

\* C18: a ride whose status is SEARCHING_FOR_RIDER has no rider.
C18_SearchingHasNoRider ==
    \A r \in DOMAIN rides :
       rides[r].status = "SEARCHING_FOR_RIDER" => rides[r].rider = NULL

C18_Witness ==
    \E r \in DOMAIN rides :
       /\ rides[r].status = "SEARCHING_FOR_RIDER"
       /\ rides[r].rider = NULL
       /\ \E c \in calls : c.op = "acceptRide" /\ c.pc = "save" /\ c.ride = r

\* C19: fare and distance are fixed at creation: no step changes them.
C19_FareDistanceFixed ==
    [][\A r \in DOMAIN rides :
          /\ rides'[r].fare = rides[r].fare
          /\ rides'[r].distance = rides[r].distance]_vars

C19_Witness ==
    \E r \in DOMAIN rides :
       /\ rides[r].paymentMethod = "GCASH"
       /\ rides[r].rider # NULL
       /\ rides[r].distance = calculateDistance(pickupOf[r], dropOf[r])
       /\ rides[r].fare = calculateFare(rides[r].distance)[rides[r].vehicle]

\* C20: acceptRide writes only for a driver whose vehicle type is the ride's
\* requested type; on a mismatch the call ends at the check and the ride is
\* left as it is.
C20_AcceptNeedsVehicle ==
    [][/\ \A c \in Saved :
             c.op = "acceptRide" => vehicleType[c.user] = rides[c.ride].vehicle
       /\ \A c \in calls \ calls' :
             (/\ c.op = "acceptRide" /\ c.pc = "user"
              /\ vehicleType[c.user] # rides[c.ride].vehicle)
                => calls' = calls \ {c} /\ UNCHANGED rides]_vars

C20_Witness ==
    \E c \in calls :
       /\ c.op = "acceptRide" /\ c.pc = "user"
       /\ vehicleType[c.user] # rides[c.ride].vehicle
       /\ acceptRide_checks(c.user, c.ride) = "error"
       /\ c.user \in DOMAIN onDutyRiders
       /\ getDistance(onDutyRiders[c.user].coords.n, pickupOf[c.ride])
             <= getDistanceRadiusInMeters

\* C21: acceptRide goes on to its write only for a driver who has a presence
\* record whose coordinates lie within the radius of the pickup; for a driver
\* without a record or farther away the call ends at the check and the ride
\* is left as it is.
C21_AcceptNeedsNearbyRecord ==
    [][\A c \in calls \ calls' :
          (c.op = "acceptRide" /\ c.pc = "user") =>
             LET near == /\ c.user \in DOMAIN onDutyRiders
                         /\ getDistance(onDutyRiders[c.user].coords.n,
                                        pickupOf[c.ride])
                               <= getDistanceRadiusInMeters
             IN /\ ~near => calls' = calls \ {c} /\ UNCHANGED rides
                /\ (\E n \in calls' \ calls : n.pc = "save") => near]_vars

C21_Witness ==
    /\ \E c \in calls :
          /\ c.op = "acceptRide" /\ c.pc = "save"
          /\ c.user \in DOMAIN onDutyRiders
          /\ getDistance(onDutyRiders[c.user].coords.n, pickupOf[c.ride])
                <= getDistanceRadiusInMeters
    /\ \E c \in calls :
          /\ c.op = "acceptRide" /\ c.pc = "user"
          /\ vehicleType[c.user] = rides[c.ride].vehicle
          /\ c.user \in DOMAIN onDutyRiders
          /\ getDistance(onDutyRiders[c.user].coords.n, pickupOf[c.ride])
                > getDistanceRadiusInMeters

\* C22: when acceptRide reaches its registry check for a driver who has no
\* presence record and one of whose open connections is in the onDuty room,
\* the call ends there, requestLocationSync is emitted to a connection of
\* that driver, and neither the ride nor the registry changes.
C22_SyncPromptWhenInRoom ==
    [][\A c \in calls \ calls' :
          (/\ c.op = "acceptRide" /\ c.pc = "user"
           /\ vehicleType[c.user] = rides[c.ride].vehicle
           /\ c.user \notin DOMAIN onDutyRiders
           /\ \E h \in Live(c.user) : <<c.user, h>> \in onDutyRoom)
             => /\ calls' = calls \ {c}
                /\ UNCHANGED <<rides, onDutyRiders>>
                /\ requestLocationSync(c.user) # {}]_vars

\* C23: on acceptRide, updateRideStatus, cancelRide and updatePaymentMethod
\* the error for a ride id that resolves to no ride differs from the error
\* for an existing ride whose state or whose caller the handler refuses, and
\* on updateRideStatus from the error for an invalid status value.
C23_NotFoundDistinct ==
    \A x \in UnknownRideIds : \A r \in DOMAIN rides :
       /\ \A d \in Drivers :
             acceptRide_try(d, r) # NoError
                => acceptRide_catch(d, x) # acceptRide_catch(d, r)
       /\ \A st \in StatusInputs :
             updateRideStatus_try(r, st) # NoError
                => updateRideStatus_catch(x, "START")
                      # updateRideStatus_catch(r, st)
       /\ \A u \in Users :
             cancelRide_try(u, r) # NoError
                => cancelRide_catch(u, x) # cancelRide_catch(u, r)
       /\ \A u \in Users :
             updatePaymentMethod_try(u, r) # NoError
                => updatePaymentMethod_catch(u, x, "GCASH")
                      # updatePaymentMethod_catch(u, r, "GCASH")

\* C24: a driver whose latest duty event received is goOffDuty has no
\* presence record, whatever handlers of earlier events were still awaiting
\* their read when goOffDuty arrived.
C24_OffDutyHasNoRecord ==
    \A d \in offDuty : d \notin DOMAIN onDutyRiders

\* C25: when the grace timer of a closed connection fires while the driver
\* has an open connection again, the driver's presence record stays.
C25_ReconnectKeepsRecord ==
    [][\A d \in Drivers, h \in Handles :
          (/\ disconnect_timeout(d, h)
           /\ d \in DOMAIN onDutyRiders
           /\ Live(d) # {})
             => d \in DOMAIN onDutyRiders']_vars

\* C26: an updateLocation with valid coordinates from a driver without a
\* presence record whose connection is in the onDuty room ends with a record
\* for the driver that holds those coordinates and that connection's handle.
C26_UpdateLocationReregisters ==
    [][/\ \A d \in Drivers : \A h \in Live(d) : \A coords \in CoordInputs :
             (/\ updateLocation(d, h, coords)
              /\ ~invalidCoords(coords)
              /\ d \notin DOMAIN onDutyRiders
              /\ <<d, h>> \in onDutyRoom)
                => \E p \in pendingDuty' :
                      /\ p.op = "updateLocation" /\ p.user = d
                      /\ p.socket = h /\ p.coords = coords
       /\ \A p \in pendingDuty \ pendingDuty' :
             p.op = "updateLocation"
                => /\ p.user \in DOMAIN onDutyRiders'
                   /\ onDutyRiders'[p.user].socketId = p.socket
                   /\ onDutyRiders'[p.user].coords = p.coords]_vars

C26_Witness ==
    \E p \in pendingDuty :
       /\ p.op = "updateLocation"
       /\ p.user \notin DOMAIN onDutyRiders
       /\ <<p.user, p.socket>> \in onDutyRoom

\* C27: every presence record holds coordinates that are numbers and not
\* NaN, and a goOnDuty or updateLocation whose coordinates are missing, not
\* numbers or NaN leaves the registry as it is.
C27_RecordsHaveNumbers ==
    [][/\ \A d \in DOMAIN onDutyRiders' :
             /\ typeof(onDutyRiders'[d].coords) = "number"
             /\ ~isNaN(onDutyRiders'[d].coords)
       /\ \A p \in pendingDuty \ pendingDuty' :
             (typeof(p.coords) # "number" \/ isNaN(p.coords))
                => UNCHANGED onDutyRiders
       /\ \A d \in Drivers : \A h \in Live(d) : \A coords \in CoordInputs :
             (/\ updateLocation(d, h, coords)
              /\ (typeof(coords) # "number" \/ isNaN(coords)))
                => UNCHANGED onDutyRiders]_vars

C27_Witness ==
    /\ \E p \in pendingDuty : p.op = "goOnDuty" /\ p.coords = NaN
    /\ onDutyRiders # <<>>

\* the presence record of driver d, if any
RecordOf(m, d) == IF d \in DOMAIN m THEN <<m[d]>> ELSE <<>>

\* a step of a handler that serves driver d
StepOf(d) ==
    \/ \E h \in Live(d) : \E coords \in CoordInputs :
          goOnDuty_event(d, h, coords) \/ updateLocation(d, h, coords)
    \/ \E pos \in AllPositions : goOnDuty(d, pos)
    \/ \E p \in pendingDuty :
          p.user = d /\ (goOnDuty_user(p) \/ updateLocation_user(p))
    \/ \E h \in Live(d) : goOffDuty(d, h) \/ disconnect(d, h)
    \/ \E h \in Handles : disconnect_timeout(d, h)

\* C28: goOnDuty, updateLocation, goOffDuty, disconnect and the grace timer
\* of one driver leave every other driver's presence record as it is.
C28_NoCrossDriverChange ==
    [][\A d \in Drivers :
          StepOf(d) => \A e \in Drivers \ {d} :
                          RecordOf(onDutyRiders', e) = RecordOf(onDutyRiders, e)]_vars

C28_Witness ==
    /\ DOMAIN onDutyRiders = Drivers
    /\ \E d \in Drivers : \E h \in Handles :
          <<d, h>> \in graceTimers /\ onDutyRiders[d].socketId = h

\* C29: for every location, sendNearbyRiders returns each driver that has a
\* presence record with valid coordinates within the radius of the location
\* exactly once, with its distance, no other driver, and in order of
\* non-decreasing distance.
C29_NearbyWithinRadiusSorted ==
    \A location \in NearbyPositions :
       LET res == sendNearbyRiders_return(location)
       IN /\ {res[i].riderId : i \in DOMAIN res} =
                {d \in DOMAIN onDutyRiders :
                    /\ typeof(onDutyRiders[d].coords) = "number"
                    /\ ~isNaN(onDutyRiders[d].coords)
                    /\ getDistance(location, onDutyRiders[d].coords.n)
                          <= getDistanceRadiusInMeters}
          /\ \A i, j \in DOMAIN res :
                i < j => /\ res[i].riderId # res[j].riderId
                         /\ res[i].distance <= res[j].distance
          /\ \A i \in DOMAIN res :
                res[i].distance =
                   getDistance(location, onDutyRiders[res[i].riderId].coords.n)

C29_Witness ==
    /\ \E i \in DOMAIN loops : loops[i].offer > 0
    /\ \E d, e \in DOMAIN onDutyRiders :
          /\ onDutyRiders[d].coords.n = 2 /\ onDutyRiders[e].coords.n = 5
          /\ Len(sendNearbyRiders_return(0)) = 1
          /\ Len(sendNearbyRiders_return(5)) = 2

\* C30: once no update of DISTANCE_RADIUS and no read of it is in progress,
\* a call of getDistanceRadiusInMeters returns the stored value in meters:
\* every completed change has invalidated the cached radius.
C30_ChangeInvalidatesCache ==
    (pendingSettings = {} /\ setting # <<>>)
       => getDistanceRadiusInMeters = setting[1] * 1000

\* C31: a ride carries a payment method or a payment confirmation time only
\* while its status is COMPLETED: no operation takes a paid ride out of
\* COMPLETED.
C31_PaidOnlyWhileCompleted ==
    \A r \in DOMAIN rides :
       (rides[r].paymentMethod # NULL \/ rides[r].paymentConfirmedAt # NULL)
          => rides[r].status = "COMPLETED"

\* C33: once the dispatch loop has written TIMEOUT to a ride, a timeout event
\* naming that ride has been emitted to the on-duty room and to the room
\* ride_<id> of the ride's subscribers.
C33_TimeoutEmittedToBothRooms ==
    \A r \in RideIds :
       timeoutWrites[r] > 0 =>
          /\ \E e \in emitted :
                /\ e.to = OnDuty /\ e.rideId = r
                /\ e.event \in {"rideOfferTimeout", "rideCanceled"}
          /\ \E e \in emitted : e.to = RideRoom(r)

\* C32: every persisted ride has a passenger count from 1 to the capacity of
\* its vehicle, and a createRide request whose pickup or drop coordinates are
\* missing or no numbers, or whose passenger count is outside 1 .. capacity,
\* persists no ride and emits no broadcast.
C32_InvalidCreatePersistsNothing ==
    [][\A c \in Customers, r \in CreatedIds, vehicle \in VehicleInputs,
         pickup \in LocationInputs, drop \in LocationInputs,
         passengerCount \in PassengerInputs :
         LET BadCoordinate(v) == v.t # "number"
             BadLocation(l) ==
                \/ l.t = "undefined"
                \/ BadCoordinate(l.latitude) \/ BadCoordinate(l.longitude)
             BadCount ==
                \/ passengerCount.t \in {"string", "NaN"}
                \/ /\ passengerCount.t = "number"
                   /\ \/ passengerCount.n < 1
                      \/ passengerCount.n > maxPassengers(vehicle)
         IN (/\ createRide_request(c, r, vehicle, pickup, drop, passengerCount)
             /\ (BadLocation(pickup) \/ BadLocation(drop) \/ BadCount))
               => UNCHANGED <<rides, emitted>>]_vars

C35_StoppedLoopStaysStopped ==
    [][\A i \in DOMAIN loops :
          loops[i].observed =>
             /\ ~loops'[i].active
             /\ loops'[i].retries = loops[i].retries
             /\ ~retrySearch_save(i)]_vars

\* C36: with updateSetting the only change of DISTANCE_RADIUS, once every
\* applied change has run its invalidation, a lookup answered from the cache
\* returns the stored radius, never the radius from before the change.
C36_NoRadiusOlderThanInvalidation ==
    (/\ \A p \in pendingSettings : p.pc # "log"
     /\ setting # <<>>
     /\ cacheValid)
       => cachedDistanceRadius[1] = setting[1] * 1000

\* C37: a ride has cancelledBy and cancelledAt exactly when its status is
\* CANCELLED.
C37_CancelMetadataIffCancelled ==
    \A r \in DOMAIN rides :
       (rides[r].status = "CANCELLED")
          <=> (rides[r].cancelledBy # NULL /\ rides[r].cancelledAt # NULL)

C39_CancelChangesNamedRideOnly ==
    [][\A k \in Saved : \A r \in DOMAIN rides :
          (/\ k.op = "socketCancelRide"
           /\ \E i \in LoopsOf(k.user) : loops[i].ride = k.named
           /\ r # k.named)
             => /\ rides'[r].status = rides[r].status
                /\ rides'[r].cancelledBy = rides[r].cancelledBy
                /\ rides'[r].cancelledByName = rides[r].cancelledByName
                /\ rides'[r].cancelledAt = rides[r].cancelledAt
                /\ rides'[r].cancellationReason = rides[r].cancellationReason]_vars

\* C40: when checkLockoutStatus reports the email locked until lockoutEndsAt,
\* it reports it locked at every later minute before lockoutEndsAt as long as
\* the stored attempts are the same, and the documents with failureReason
\* account_locked change nothing in what it reports.
C40_LockoutLastsFullWindow ==
    LET status == checkLockoutStatus(loginAttempts, minute)
        counted == SelectSeq(loginAttempts,
                             LAMBDA a : a.success \/ a.failureReason # "account_locked")
    IN /\ status.isLocked =>
             \A t \in minute .. (status.lockoutEndsAt - 1) :
                checkLockoutStatus(loginAttempts, t).isLocked
       /\ status = checkLockoutStatus(counted, minute)
====
